---- MODULE Spec2Model ----
(***************************************************************************)
(* Model of keras/trainers/data_adapters/generator_data_adapter.py:        *)
(* GeneratorDataAdapter wraps a single-pass Python generator of batches,   *)
(* peeks its first element, and re-exposes the sequence through several    *)
(* iteration protocols.                                                    *)
(*                                                                         *)
(* A Python value is a record with a "tag":                                *)
(*   "tuple" / "list" : a container, items in field "items";               *)
(*   "leaf"           : an array-like object with class name, module name, *)
(*                      attribute flags, shape and payload;                *)
(*   "None"           : Python None.                                       *)
(***************************************************************************)
EXTENDS Integers, Sequences, FiniteSets, TLC

\* ---------------------------------------------------------------- bounds
MaxLen == 2        \* longest source generator
MaxViews == 2      \* iterators obtained from one adapter
MaxTfCalls == 2    \* runs of the signature inference on one adapter

\* ------------------------------------------------------- Python values
\* A dimension of unknown size (None in a shape).
Unknown == -1

None == [tag |-> "None"]

Tuple(items) == [tag |-> "tuple", items |-> items]

List(items) == [tag |-> "list", items |-> items]

\* An array-like leaf.  cls/module: x.__class__.__name__ and the dotted
\* components of x.__class__.__module__; tocoo: hasattr(x, "tocoo");
\* array: hasattr(x, "__array__"); shape: x.shape; values: the stored
\* elements; coords: the index arrays of a sparse object (for a scipy matrix
\* in coordinate form <<row, col>>, two parallel arrays; for a backend
\* SparseTensor the N x 2 array of (row, col) pairs), empty for dense data.
Leaf(cls, module, tocoo, array, shape, values, coords) ==
    [tag |-> "leaf", cls |-> cls, module |-> module, tocoo |-> tocoo,
     array |-> array, shape |-> shape, values |-> values, coords |-> coords]

NdArray(shape, values) ==
    Leaf("ndarray", <<"numpy">>, FALSE, TRUE, shape, values, <<>>)

\* The leaves the source generators are built from.
X1 == NdArray(<<1, 2>>, <<1, 2>>)                  \* [[1,2]]
Y1 == NdArray(<<1>>, <<0>>)                        \* [0]
X2 == NdArray(<<1, 2>>, <<3, 4>>)                  \* [[3,4]]
Y2 == NdArray(<<1>>, <<1>>)                        \* [1]
Scalar == NdArray(<<>>, <<7>>)                     \* np.array(7), rank 0
Ragged ==
    Leaf("RaggedTensor", <<"tensorflow">>, FALSE, FALSE, <<2, Unknown>>, <<5, 6>>, <<>>)
TfSparse ==
    Leaf("SparseTensor", <<"tensorflow">>, FALSE, FALSE, <<2, 3>>, <<9>>,
         <<<<0, 1>>>>)
\* scipy.sparse.coo_matrix [[0,4,0],[5,0,6]]: row (0,1,1), col (1,0,2)
Coo ==
    Leaf("coo_matrix", <<"scipy", "sparse", "_coo">>, TRUE, FALSE, <<2, 3>>,
         <<4, 5, 6>>, <<<<0, 1, 1>>, <<1, 0, 2>>>>)
\* an object of a scipy.sparse module that has no tocoo()
NoCoo ==
    Leaf("LinearOperator", <<"scipy", "sparse", "linalg">>, FALSE, FALSE,
         <<2, 2>>, <<1, 0, 0, 1>>, <<>>)
\* an object with tocoo() from another library
Duck ==
    Leaf("MyMatrix", <<"mylib">>, TRUE, FALSE, <<2, 2>>, <<1>>,
         <<<<0>>, <<0>>>>)
\* a framework tensor that supports __array__ (e.g. an eager tensor)
Tensor == Leaf("Tensor", <<"torch">>, FALSE, TRUE, <<1, 2>>, <<8, 9>>, <<>>)

\* A nested batch with sparse, ragged and look-alike fields.
Rich ==
    Tuple(<<Coo, Tuple(<<Ragged, TfSparse>>), Tuple(<<NoCoo, Duck, Tensor>>)>>)

\* The batches a source generator may yield.
Batches ==
    { Tuple(<<X1, Y1>>),                         \* ([[1,2]], [0])
      Tuple(<<X2, Y2>>),                         \* ([[3,4]], [1])
      X1,                                        \* a bare array
      List(<<X1, Y1>>),                          \* a list, not a tuple
      Tuple(<<X1, Scalar>>),                     \* rank-0 field
      Rich }

RECURSIVE SeqsUpTo(_, _)
SeqsUpTo(S, n) ==
    IF n = 0 THEN {<<>>}
    ELSE LET shorter == SeqsUpTo(S, n - 1)
         IN  shorter \cup {Append(s, b) : s \in {t \in shorter : Len(t) = n - 1}, b \in S}

\* The finite source generators: every sequence of at most MaxLen batches.
Sources == SeqsUpTo(Batches, MaxLen)

\* ------------------------------------------------- structure traversal
\* The leaves of a structure, in traversal order.  A value that is not a
\* container is itself the single leaf.
RECURSIVE flatten(_)
RECURSIVE flatten_items(_, _)
flatten(structure) ==
    IF structure.tag \in {"tuple", "list"}
    THEN flatten_items(structure.items, 1)
    ELSE <<structure>>

flatten_items(items, i) ==
    IF i > Len(items) THEN <<>>
    ELSE flatten(items[i]) \o flatten_items(items, i + 1)

\* The set of leaves of a structure: the arguments a mapped function gets.
leaves(structure) == {flatten(structure)[i] : i \in 1..Len(flatten(structure))}

\* tree.map_structure(func, structure): apply func to every leaf, keep the
\* nesting.  func is given as a function on the leaves of the structure.
RECURSIVE map_structure(_, _)
map_structure(func, structure) ==
    IF structure.tag \in {"tuple", "list"}
    THEN [tag |-> structure.tag,
          items |-> [i \in 1..Len(structure.items) |->
                        map_structure(func, structure.items[i])]]
    ELSE func[structure]

\* ------------------------------------------------------ module helpers
StartsWith(s, prefix) ==
    /\ Len(s) >= Len(prefix)
    /\ SubSeq(s, 1, Len(prefix)) = prefix

is_scipy_sparse(x) ==
    /\ StartsWith(x.module, <<"scipy", "sparse">>)
    /\ x.tocoo

\* x.tocoo(): the coordinate form with its row, col, data and shape.
tocoo(x) ==
    [row |-> x.coords[1], col |-> x.coords[2], data |-> x.values,
     shape |-> x.shape]

\* np.expand_dims(v, axis=1): a length-N vector becomes an N x 1 array.
expand_dims(v) == [k \in 1..Len(v) |-> <<v[k]>>]

\* np.concatenate((a, b), axis=1): join the rows of two N x _ arrays.
concatenate(a, b) == [k \in 1..Len(a) |-> a[k] \o b[k]]

\* tf.SparseTensor(indices, values, dense_shape)
SparseTensor(indices, values, dense_shape) ==
    Leaf("SparseTensor", <<"tensorflow">>, FALSE, FALSE, dense_shape, values,
         indices)


\* Variant: the index columns are paired as (col, row).
scipy_sparse_to_tf_sparse_swapped(x) ==
    LET sparse_coo == tocoo(x)
        indices == concatenate(expand_dims(sparse_coo.col),
                               expand_dims(sparse_coo.row))
    IN  SparseTensor(indices, sparse_coo.data, sparse_coo.shape)

scipy_sparse_to_tf_sparse(x) ==
    LET sparse_coo == tocoo(x)
        indices == concatenate(expand_dims(sparse_coo.row),
                               expand_dims(sparse_coo.col))
    IN  SparseTensor(indices, sparse_coo.data, sparse_coo.shape)

convert_to_tf(batch) ==
    IF is_scipy_sparse(batch) THEN scipy_sparse_to_tf_sparse(batch) ELSE batch


\* Variant: every batch is checked the way the first one is.
get_tf_iterator_step_validating(batch) ==
    IF batch.tag # "tuple"
       \/ \E i \in 1..Len(flatten(batch)) : Len(flatten(batch)[i].shape) < 1
    THEN [raised |-> "ValueError", out |-> None]
    ELSE [raised |-> "none", out |->
        map_structure([x \in leaves(batch) |-> convert_to_tf(x)],
                      batch)]

\* One iteration of get_tf_iterator on a batch pulled from self.generator.
get_tf_iterator_step(batch) ==
    [raised |-> "none", out |->
        map_structure([x \in leaves(batch) |-> convert_to_tf(x)],
                      batch)]

\* ------------------------------------------------- output signature
TensorSpec(kind, shape) == [tag |-> "spec", kind |-> kind, shape |-> shape]


\* Variant: no rank check; a rank-0 shape is kept as it is.
get_tensor_spec_unchecked(x) ==
    LET shape == IF Len(x.shape) < 1 THEN x.shape
                 ELSE [x.shape EXCEPT ![1] = Unknown]
    IN  IF x.cls = "RaggedTensor" THEN TensorSpec("ragged", shape)
        ELSE IF x.cls = "SparseTensor" \/ is_scipy_sparse(x)
             THEN TensorSpec("sparse", shape)
             ELSE TensorSpec("dense", shape)

\* Variant: the static batch dimension is kept in the descriptor.
get_tensor_spec_static(x) ==
    IF Len(x.shape) < 1
    THEN [tag |-> "raise", error |-> "ValueError", rank |-> Len(x.shape)]
    ELSE LET shape == x.shape
         IN  IF x.cls = "RaggedTensor" THEN TensorSpec("ragged", shape)
             ELSE IF x.cls = "SparseTensor" \/ is_scipy_sparse(x)
                  THEN TensorSpec("sparse", shape)
                  ELSE TensorSpec("dense", shape)

\* get_tensor_spec: the descriptor of one field, or the rank error.
get_tensor_spec(x) ==
    IF Len(x.shape) < 1
    THEN [tag |-> "raise", error |-> "ValueError", rank |-> Len(x.shape)]
    ELSE LET shape == [x.shape EXCEPT ![1] = Unknown]
         IN  IF x.cls = "RaggedTensor" THEN TensorSpec("ragged", shape)
             ELSE IF x.cls = "SparseTensor" \/ is_scipy_sparse(x)
                  THEN TensorSpec("sparse", shape)
                  ELSE TensorSpec("dense", shape)

\* _set_tf_output_signature: map get_tensor_spec over the first batch; the
\* first field whose descriptor raises aborts the traversal and nothing is
\* assigned.
set_tf_output_signature(first_batch) ==
    LET mapped ==
        map_structure([x \in leaves(first_batch) |-> get_tensor_spec(x)],
                      first_batch)
        results == flatten(mapped)
        failed == {i \in 1..Len(results) : results[i].tag = "raise"}
    IN  IF failed # {}
        THEN [raised |-> "ValueError",
              rank |-> results[CHOOSE i \in failed : \A j \in failed : i <= j].rank,
              signature |-> None]
        ELSE [raised |-> "none", rank |-> 0, signature |-> mapped]


\* Variant: the signature is recomputed on every call.
signature_missing_always(output_signature) == TRUE

\* The guard of get_tf_dataset: is the signature still to be computed?
signature_missing(output_signature) == output_signature = None


\* Variant: the length is reported once the generator has been drained.
num_batches_counted(self) ==
    IF self.generator.active THEN None ELSE [tag |-> "int", value |-> 0]

\* ------------------------------------------------------------ properties
num_batches(self) == None

batch_size(self) == None

\* ------------------------------------------------------------ iterators
\* next() on a Python generator that yields items[1], items[2], ... once.
generator_next(g) ==
    IF g.pos < Len(g.items)
    THEN [raised |-> "none", value |-> g.items[g.pos + 1],
          gen |-> [g EXCEPT !.pos = @ + 1]]
    ELSE [raised |-> "StopIteration", value |-> None, gen |-> g]


\* Variant: the peeked element is not put back in front of the generator.
peek_and_restore_lost(g) ==
    LET n == generator_next(g)
    IN  [raised |-> n.raised,
         element |-> n.value,
         chain |-> [head |-> <<>>, active |-> TRUE],
         gen |-> n.gen]

\* Variant: the element is read from a copy, the generator is not advanced.
peek_and_restore_copy(g) ==
    LET n == generator_next(g)
    IN  [raised |-> n.raised,
         element |-> n.value,
         chain |-> [head |-> <<n.value>>, active |-> TRUE],
         gen |-> g]

\* peek_and_restore on a generator that has an element: the element, the
\* chain [element] + generator, and the advanced generator.
peek_and_restore(g) ==
    LET n == generator_next(g)
    IN  [raised |-> n.raised,
         element |-> n.value,
         chain |-> [head |-> <<n.value>>, active |-> TRUE],
         gen |-> n.gen]


\* Variant: yielding the pending element also reads one element ahead.
chain_next_readahead(chain, g) ==
    IF chain.head # <<>>
    THEN LET n == generator_next(g)
         IN  [raised |-> "none", value |-> Head(chain.head),
              chain |-> [chain EXCEPT
                            !.head = IF n.raised = "none"
                                     THEN Tail(@) \o <<n.value>> ELSE Tail(@)],
              gen |-> n.gen]
    ELSE IF ~chain.active
    THEN [raised |-> "StopIteration", value |-> None, chain |-> chain, gen |-> g]
    ELSE LET n == generator_next(g)
         IN  [raised |-> n.raised, value |-> n.value,
              chain |-> [chain EXCEPT !.active = (n.raised = "none")],
              gen |-> n.gen]

\* next() on itertools.chain([element], generator): the pending list first,
\* then the generator; once the generator stops the chain stays stopped.
chain_next(chain, g) ==
    IF chain.head # <<>>
    THEN [raised |-> "none", value |-> Head(chain.head),
          chain |-> [chain EXCEPT !.head = Tail(@)], gen |-> g]
    ELSE IF ~chain.active
    THEN [raised |-> "StopIteration", value |-> None, chain |-> chain, gen |-> g]
    ELSE LET n == generator_next(g)
         IN  [raised |-> n.raised, value |-> n.value,
              chain |-> [chain EXCEPT !.active = (n.raised = "none")],
              gen |-> n.gen]


\* Variant: any sequence container is accepted.
isinstance_sequence(x) == x.tag \in {"tuple", "list"}

isinstance_tuple(x) == x.tag = "tuple"

\* data_adapter_utils: the per-batch array conversion of the plain, jax and
\* torch iterators.  An object that supports __array__ becomes the
\* backend's array type with the same shape and values.
convert_to_array(kind, x) ==
    LET target == IF kind = "torch" THEN "Tensor" ELSE "ndarray"
    IN  IF x.tag = "leaf" /\ x.array /\ x.cls # target
        THEN [x EXCEPT !.cls = target,
                       !.module = IF kind = "torch" THEN <<"torch">> ELSE <<"numpy">>]
        ELSE x

convert_to_numpy(x) == convert_to_array("numpy", x)

convert_to_jax(x) == convert_to_array("jax", x)

convert_to_torch(x) == convert_to_array("torch", x)

\* What one iteration of a view's loop yields for the batch it pulled.
view_step(kind, batch) ==
    IF kind = "tf" THEN get_tf_iterator_step(batch)
    ELSE IF kind = "numpy"
    THEN [raised |-> "none", out |->
        map_structure([x \in leaves(batch) |-> convert_to_numpy(x)],
                      batch)]
    ELSE IF kind = "jax"
    THEN [raised |-> "none", out |->
        map_structure([x \in leaves(batch) |-> convert_to_jax(x)],
                      batch)]
    ELSE [raised |-> "none", out |->
        map_structure([x \in leaves(batch) |-> convert_to_torch(x)],
                      batch)]

\* ---------------------------------------------------------------- state
Kinds == {"numpy", "jax", "tf", "torch"}

VARIABLES
    source,            \* the caller's generator: [items, pos]
    phase,             \* "new", "ready", or the error __init__ raised
    generator,         \* self.generator: the chain
    first_batch,       \* self._first_batch
    output_signature,  \* self._output_signature
    views,             \* how many iterators of each kind were obtained
    signatures,        \* the output_signature values given to the backend
    delivered,         \* batches yielded by the iterators, in pull order
    raised,            \* the exceptions the calls have raised so far
    sigRuns            \* executions of _set_tf_output_signature

vars == <<source, phase, generator, first_batch, output_signature, views,
          signatures, delivered, raised, sigRuns>>

Self ==
    [generator |-> generator, first_batch |-> first_batch,
     output_signature |-> output_signature]

NoChain == [head |-> <<>>, active |-> FALSE]

\* An exception raised by call op; cited: the rank its message states
\* (Unknown when it states none).
Raised(op, error, cited) == [op |-> op, error |-> error, cited |-> cited]

RankError == Raised("get_tf_dataset", "ValueError", 0)

\* The iterators obtained so far, of all kinds.
NumViews == views["numpy"] + views["jax"] + views["tf"] + views["torch"]

Init ==
    /\ source \in {[items |-> s, pos |-> 0] : s \in Sources}
    /\ phase = "new"
    /\ generator = NoChain
    /\ first_batch = None
    /\ output_signature = None
    /\ views = [k \in Kinds |-> 0]
    /\ signatures = {}
    /\ delivered = <<>>
    /\ raised = {}
    /\ sigRuns = 0

\* GeneratorDataAdapter.__init__(generator)
Construct ==
    /\ phase = "new"
    /\ LET p == peek_and_restore(source)
       IN  IF p.raised # "none"
           THEN /\ phase' = p.raised
                /\ source' = p.gen
                /\ raised' = raised \cup {Raised("__init__", p.raised, Unknown)}
                /\ UNCHANGED <<generator, first_batch, output_signature>>
           ELSE /\ source' = p.gen
                /\ generator' = p.chain
                /\ first_batch' = p.element
                /\ output_signature' = None
                /\ IF ~isinstance_tuple(p.element)
                   THEN /\ phase' = "ValueError"
                        /\ raised' = raised \cup
                              {Raised("__init__", "ValueError", Unknown)}
                   ELSE /\ phase' = "ready"
                        /\ UNCHANGED raised
    /\ UNCHANGED <<views, signatures, delivered, sigRuns>>

\* get_numpy_iterator / get_jax_iterator / get_torch_dataloader: wrap
\* self.generator; nothing runs until the first pull.
GetPlain(kind) ==
    /\ phase = "ready"
    /\ NumViews < MaxViews
    /\ views' = [views EXCEPT ![kind] = @ + 1]
    /\ UNCHANGED <<source, phase, generator, first_batch, output_signature,
                   signatures, delivered, raised, sigRuns>>

GetNumpyIterator == GetPlain("numpy")

GetJaxIterator == GetPlain("jax")

GetTorchDataloader == GetPlain("torch")

\* get_tf_dataset(): compute the signature when it is missing, then build
\* the dataset over get_tf_iterator with the signature.
GetTfDataset ==
    /\ phase = "ready"
    /\ LET run == signature_missing(output_signature)
           r == set_tf_output_signature(first_batch)
       IN  /\ run => sigRuns < MaxTfCalls
           /\ sigRuns' = IF run THEN sigRuns + 1 ELSE sigRuns
           /\ IF run /\ r.raised # "none"
              THEN /\ raised' = raised \cup
                         {Raised("get_tf_dataset", r.raised, r.rank)}
                   /\ UNCHANGED <<output_signature, views, signatures>>
              ELSE /\ NumViews < MaxViews
                   /\ output_signature' =
                         IF run THEN r.signature ELSE output_signature
                   /\ views' = [views EXCEPT !["tf"] = @ + 1]
                   /\ signatures' = signatures \cup {output_signature'}
                   /\ UNCHANGED raised
    /\ UNCHANGED <<source, phase, generator, first_batch, delivered>>

\* next() on an iterator of the given kind: one iteration of its loop over
\* self.generator.  An iterator that has finished raises StopIteration
\* again, as a live one does over the stopped chain, and iterators of one
\* kind run the same loop over the same chain, so an iterator has no state
\* of its own.  afterRaise: the pull came after a get_tf_dataset() call
\* raised the rank error.
Pull(kind) ==
    /\ phase = "ready"
    /\ views[kind] > 0
    /\ LET n == chain_next(generator, source)
           step == view_step(kind, n.value)
       IN  /\ generator' = n.chain
           /\ source' = n.gen
           /\ IF n.raised # "none"
              THEN /\ raised' = raised \cup {Raised("next", n.raised, Unknown)}
                   /\ UNCHANGED delivered
              ELSE IF step.raised # "none"
              THEN /\ raised' = raised \cup {Raised("next", step.raised, Unknown)}
                   /\ UNCHANGED delivered
              ELSE /\ delivered' = Append(delivered,
                          [kind |-> kind, raw |-> n.value, out |-> step.out,
                           afterRaise |-> (RankError \in raised)])
                   /\ UNCHANGED raised
    /\ UNCHANGED <<phase, first_batch, output_signature, views, signatures,
                   sigRuns>>

Next ==
    \/ Construct
    \/ GetNumpyIterator
    \/ GetJaxIterator
    \/ GetTorchDataloader
    \/ GetTfDataset
    \/ \E kind \in Kinds : Pull(kind)

Spec == Init /\ [][Next]_vars

TypeOK ==
    /\ phase \in {"new", "ready", "ValueError", "StopIteration"}
    /\ source.pos \in 0..Len(source.items)
    /\ NumViews <= MaxViews
    /\ Len(delivered) <= Len(source.items)
    /\ sigRuns \in 0..MaxTfCalls

\* ------------------------------------------------------------ vocabulary
FirstIsTuple == Len(source.items) > 0 /\ source.items[1].tag = "tuple"

Raw == [i \in 1..Len(delivered) |-> delivered[i].raw]

Out == [i \in 1..Len(delivered) |-> delivered[i].out]

\* The chain has raised StopIteration: nothing is left to pull.
Drained == phase = "ready" /\ generator.head = <<>> /\ ~generator.active

DeliveredOnlyBy(kind) ==
    \A i \in 1..Len(delivered) : delivered[i].kind = kind

\* The source's first n batches as the plain iterator yields them.
PlainOf(n) ==
    [i \in 1..n |->
        map_structure([x \in leaves(source.items[i]) |-> convert_to_numpy(x)],
                      source.items[i])]

Skeleton(structure) ==
    map_structure([x \in leaves(structure) |-> None], structure)

Rank(x) == Len(x.shape)

HasRank0(batch) ==
    \E i \in 1..Len(flatten(batch)) : Rank(flatten(batch)[i]) = 0

IsPrefix(s, t) == Len(s) <= Len(t) /\ s = SubSeq(t, 1, Len(s))

Max(a, b) == IF a >= b THEN a ELSE b

StopRaised == Raised("next", "StopIteration", Unknown)

\* ------------------------------------------------------------------- C1
\* C1: for a finite source whose first batch is a tuple, construction
\* succeeds, and draining the plain (numpy) iterator yields the source's
\* batches: what it pulls is always a prefix of the source, once drained it
\* is the whole source in order, and what it yields is the array conversion
\* of each batch in turn.
C1_PlainSequenceIsSource ==
    /\ (phase # "new" /\ FirstIsTuple) =>
          /\ phase = "ready"
          /\ \A e \in raised : e.op # "__init__"
    /\ (phase = "ready" /\ DeliveredOnlyBy("numpy")) =>
          /\ IsPrefix(Raw, source.items)
          /\ Out = PlainOf(Len(delivered))
          /\ Drained => Raw = source.items

C1_Witness ==
    /\ Drained
    /\ DeliveredOnlyBy("numpy")
    /\ Len(delivered) = 2
    /\ delivered[1].raw # delivered[2].raw
    /\ delivered[1].raw = first_batch

\* ------------------------------------------------------------------- C2
\* C2: when the first value the source yields is not a tuple, construction
\* raises ValueError and the source has been advanced by at most one element.
C2_NonTupleRejected ==
    (phase # "new" /\ Len(source.items) > 0 /\ source.items[1].tag # "tuple")
        => /\ phase = "ValueError"
           /\ raised = {Raised("__init__", "ValueError", Unknown)}
           /\ source.pos <= 1

C2_Witness ==
    /\ phase = "ValueError"
    /\ Len(source.items) = 2
    /\ source.items[1].tag = "list"
    /\ source.pos = 1

\* ------------------------------------------------------------------- C3
\* C3: when the first batch is a tuple with a rank-0 field, construction
\* succeeds, every get_tf_dataset() call raises ValueError citing rank 0 and
\* returns no dataset, and the plain iterator is obtained and yields the
\* full source, whether before or after the failed call.
C3_Rank0OnlyFailsTfPath ==
    (phase # "new" /\ FirstIsTuple /\ HasRank0(source.items[1])) =>
        /\ phase = "ready"
        /\ views["tf"] = 0 /\ signatures = {} /\ output_signature = None
        /\ sigRuns > 0 <=> RankError \in raised
        /\ raised \subseteq {RankError, StopRaised}
        /\ IsPrefix(Raw, source.items)
        /\ Drained => Raw = source.items
        /\ DeliveredOnlyBy("numpy") => Out = PlainOf(Len(delivered))

\* One plain iterator yields the first batch before the failed call and the
\* second one after it.
C3_Witness ==
    /\ Drained
    /\ HasRank0(first_batch)
    /\ views = [k \in Kinds |-> IF k = "numpy" THEN 1 ELSE 0]
    /\ Len(delivered) = 2
    /\ ~delivered[1].afterRaise
    /\ delivered[2].afterRaise
    /\ sigRuns = 2

\* ------------------------------------------------------------------- C4
\* C4 as stated: the signature inference runs at most once per adapter.
C4_InferenceRunsAtMostOnce == sigRuns <= 1

\* The state of the signature cache the amended claim describes.
C4_Cache ==
    /\ output_signature # None => sigRuns = 1
    /\ signatures \subseteq {output_signature}
    /\ signatures # {} =>
          /\ output_signature # None
          /\ output_signature = set_tf_output_signature(first_batch).signature
    /\ (phase = "ready" /\ output_signature = None) =>
          /\ views["tf"] = 0
          /\ sigRuns > 0 => RankError \in raised

\* C4 amended: the inference stores a signature at most once; once stored,
\* it is never changed, no later call runs the inference again and every
\* dataset gets that same signature, the one inferred from the first batch;
\* while none is stored, every run of the inference has raised the rank
\* error and no dataset was built.
C4_SignatureStoredAtMostOnce ==
    /\ []C4_Cache
    /\ [][output_signature # None =>
              UNCHANGED <<output_signature, sigRuns>>]_vars

C4_Witness ==
    /\ views["tf"] = 2
    /\ sigRuns = 1
    /\ signatures = {output_signature}
    /\ Len(delivered) = 1

\* ------------------------------------------------------------------- C5
\* The descriptor kind the claim assigns to a field.
ClaimedKind(x) ==
    IF x.cls = "RaggedTensor" THEN "ragged"
    ELSE IF x.cls = "SparseTensor" THEN "sparse"
    ELSE IF Len(x.module) >= 2 /\ x.module[1] = "scipy"
            /\ x.module[2] = "sparse" /\ x.tocoo THEN "sparse"
    ELSE "dense"

\* C5: in the inferred signature, every field of the first batch has, at its
\* own position of the nesting, a descriptor whose shape is the field's
\* shape with the leading dimension unknown and the others unchanged, and
\* whose kind is ragged, sparse or dense by the field's category; the first
\* batch ([[1,2]],[0]) gives (unknown, 2) and (unknown,).
C5_SignatureShapeAndKind ==
    output_signature # None =>
        LET fields == flatten(first_batch)
            specs == flatten(output_signature)
        IN  /\ Skeleton(output_signature) = Skeleton(first_batch)
            /\ Len(specs) = Len(fields)
            /\ \A i \in 1..Len(fields) :
                  /\ Rank(fields[i]) >= 1
                  /\ specs[i].tag = "spec"
                  /\ Len(specs[i].shape) = Rank(fields[i])
                  /\ specs[i].shape[1] = Unknown
                  /\ \A d \in 2..Rank(fields[i]) :
                        specs[i].shape[d] = fields[i].shape[d]
                  /\ specs[i].kind = ClaimedKind(fields[i])
            /\ first_batch = Tuple(<<X1, Y1>>) =>
                  output_signature =
                      Tuple(<<TensorSpec("dense", <<Unknown, 2>>),
                              TensorSpec("dense", <<Unknown>>)>>)

C5_Witness ==
    /\ output_signature # None
    /\ first_batch = Rich
    /\ flatten(output_signature) =
          << TensorSpec("sparse", <<Unknown, 3>>),
             TensorSpec("ragged", <<Unknown, Unknown>>),
             TensorSpec("sparse", <<Unknown, 3>>),
             TensorSpec("dense", <<Unknown, 2>>),
             TensorSpec("dense", <<Unknown, 2>>),
             TensorSpec("dense", <<Unknown, 2>>) >>

\* ------------------------------------------------------------------- C6
\* What the claim says a delivered field is, given the pulled field.
ClaimedTfField(x) ==
    IF x.tag = "leaf" /\ Len(x.module) >= 2 /\ x.module[1] = "scipy"
       /\ x.module[2] = "sparse" /\ x.tocoo
    THEN [x EXCEPT !.cls = "SparseTensor", !.module = <<"tensorflow">>,
                   !.tocoo = FALSE, !.array = FALSE,
                   !.coords = [k \in 1..Len(x.values) |->
                                  <<x.coords[1][k], x.coords[2][k]>>]]
    ELSE x

\* C6: in every batch yielded on the get_tf_dataset() path, a scipy sparse
\* field is replaced by the sparse tensor whose k-th index row is
\* (row[k], col[k]), with the values in the same order and the matrix shape;
\* every other field is the pulled field itself, and the nesting is kept.
C6_SparseConversion ==
    \A i \in 1..Len(delivered) :
        delivered[i].kind = "tf" =>
            LET pulled == flatten(delivered[i].raw)
                given == flatten(delivered[i].out)
            IN  /\ Skeleton(delivered[i].out) = Skeleton(delivered[i].raw)
                /\ Len(given) = Len(pulled)
                /\ \A j \in 1..Len(pulled) :
                      given[j] = ClaimedTfField(pulled[j])

C6_Witness ==
    \E i \in 1..Len(delivered) :
        /\ delivered[i].kind = "tf"
        /\ delivered[i].raw = Rich
        /\ flatten(delivered[i].out)[1].cls = "SparseTensor"
        /\ flatten(delivered[i].out)[1].coords =
              << <<0, 1>>, <<1, 0>>, <<1, 2>> >>
        /\ flatten(delivered[i].out)[1].values = <<4, 5, 6>>
        /\ flatten(delivered[i].out)[1].shape = <<2, 3>>
        /\ flatten(delivered[i].out)[5] = Duck

\* ------------------------------------------------------------------- C7
\* C7: on every constructed adapter, in every state, num_batches and
\* batch_size are None.
C7_SizesUnknown ==
    phase = "ready" => num_batches(Self) = None /\ batch_size(Self) = None

C7_Witness ==
    /\ Drained
    /\ Len(delivered) = 2
    /\ sigRuns > 0
    /\ num_batches(Self) = None
    /\ batch_size(Self) = None

\* ------------------------------------------------------------------- C8
\* C8: over all iterators of one adapter and every interleaving of their
\* pulls, the batches pulled, in pull order, are the source's batches in
\* order, each exactly once, so an iterator first pulled after k deliveries
\* gets batch k+1; each is yielded as its iterator converts it; once
\* drained nothing was skipped.
C8_ExactlyOnceAcrossViews ==
    phase = "ready" =>
        /\ IsPrefix(Raw, source.items)
        /\ Len(delivered) = source.pos - Len(generator.head)
        /\ \A i \in 1..Len(delivered) :
              /\ delivered[i].raw = source.items[i]
              /\ views[delivered[i].kind] > 0
              /\ delivered[i].out =
                    view_step(delivered[i].kind, source.items[i]).out
        /\ Drained => Len(delivered) = Len(source.items)

C8_Witness ==
    /\ Drained
    /\ views["tf"] = 1
    /\ views["numpy"] = 1
    /\ Len(delivered) = 2
    /\ delivered[1].kind = "tf"
    /\ delivered[2].kind = "numpy"
    /\ delivered[2].raw # first_batch

\* ------------------------------------------------------------------- C9
\* The source position the claim gives: one element for the peek, then one
\* per batch delivered beyond it.
C9_Position ==
    phase = "ready" => source.pos = Max(1, Len(delivered))

\* C9: construction of an adapter pulls exactly one element; obtaining an
\* iterator (a failed or successful get_tf_dataset() included) pulls none
\* and moves neither the chain nor the source; and the source position is
\* always max(1, batches delivered).
C9_NoReadAhead ==
    [][ /\ (phase = "new" /\ phase' \in {"ready", "ValueError"}) =>
              source'.pos = 1
        /\ (views' # views \/ sigRuns' # sigRuns) =>
              /\ source' = source
              /\ generator' = generator
              /\ delivered' = delivered
        /\ C9_Position' ]_vars

C9_Witness ==
    /\ phase = "ready"
    /\ generator.active
    /\ Len(delivered) = 2
    /\ source.pos = 2
    /\ delivered[2].kind = "tf"

\* ------------------------------------------------------------------ C10
\* A batch that would not pass the checks made on the first batch.
Irregular(batch) ==
    \/ batch.tag # "tuple"
    \/ HasRank0(batch)
    \/ Skeleton(batch) # Skeleton(first_batch)

\* C10: after a successful construction no pull raises a validation error:
\* a pull either delivers the next source batch, whatever it is, or raises
\* StopIteration because the source is exhausted; and the cached signature,
\* once set, is the one inferred from the first batch.
C10_OnlyFirstBatchValidated ==
    phase = "ready" =>
        /\ \A e \in raised : e.op = "next" => e = StopRaised
        /\ StopRaised \in raised <=> Drained
        /\ Drained => source.pos = Len(source.items)
        /\ Raw = SubSeq(source.items, 1, source.pos - Len(generator.head))
        /\ first_batch = source.items[1]
        /\ output_signature # None =>
              output_signature =
                  set_tf_output_signature(source.items[1]).signature

C10_Witness ==
    /\ phase = "ready"
    /\ output_signature # None
    /\ raised = {}
    /\ Len(delivered) = 2
    /\ delivered[2].kind = "tf"
    /\ Irregular(delivered[2].raw)
    /\ delivered[2].raw.tag # "tuple"

====
